---- MODULE Spec2Model ----
(***************************************************************************)
(* The scale-up control loop of testflows/github/runners/scale_up.py.      *)
(*                                                                         *)
(* Strings that the code takes apart (server names, labels, label keys)    *)
(* are sequences of tokens, so that str.startswith is a prefix test on the *)
(* sequence: "github-runner-12-7" is <<"github-runner-","1","2","-","7">>. *)
(* None is the empty sequence for names and labels, "None" for a location  *)
(* and -1 for an optional integer.                                         *)
(***************************************************************************)
EXTENDS Integers, Sequences, FiniteSets, TLC

\* ---------------------------------------------------------------- bounds
MaxCycles == 2
MaxUid == 3
MaxRuns == 2
MaxEnvSteps == 1
MaxFaults == 1
\* the values the attempt number, the clock and the count of late attempts of
\* wait_ssh are followed to; beyond them they stay
MaxAttempt == 4
MaxElapsed == 12
MaxLate == 4
max_workers == 2

\* ------------------------------------------------------- program constants
server_name_prefix == <<"github-runner-">>
runner_name_prefix == server_name_prefix
standby_server_name_prefix == server_name_prefix \o <<"standby-">>
standby_runner_name_prefix == standby_server_name_prefix
recycle_server_name_prefix == server_name_prefix \o <<"recycle-">>
server_ssh_key_label == <<"github-runner-ssh-key">>

STATUS_OFF == "off"
STATUS_STARTING == "starting"
STATUS_RUNNING == "running"
STATUS_STOPPING == "stopping"

NoneInt == -1
NoneName == <<>>
NoneLocation == "None"

\* ------------------------------------------------------------- strings
StartsWith(s, p) == Len(p) <= Len(s) /\ SubSeq(s, 1, Len(p)) = p

\* the part of s after the prefix p: s.split(p, 1)[-1]
AfterPrefix(s, p) == SubSeq(s, Len(p) + 1, Len(s))

\* ------------------------------------------------------------- sequences
Range(s) == {s[i] : i \in 1..Len(s)}

\* list.index: the first position holding x (0 when absent)
IndexOf(s, x) ==
    IF \E i \in 1..Len(s) : s[i] = x
    THEN CHOOSE i \in 1..Len(s) : s[i] = x /\ \A k \in 1..(i - 1) : s[k] # x
    ELSE 0

\* a pop that leaves the list as it was
KeepAt(s, i) == s

\* list.pop(i)
PopAt(s, i) == SubSeq(s, 1, i - 1) \o SubSeq(s, i + 1, Len(s))

\* the order in which a set is iterated: fixed, but not told by the code
RECURSIVE Enumerate(_)
Enumerate(S) ==
    IF S = {} THEN <<>>
    ELSE LET x == CHOOSE y \in S : TRUE IN <<x>> \o Enumerate(S \ {x})

\* ---------------------------------------------------------------- labels
type_prefix == <<"type-">>
in_prefix == <<"in-">>
image_prefix == <<"image-">>
label_key_prefix == <<"github-runner-label">>

\* the labels carrying a prefix, in the order the loop over the set meets them
LabelsWith(labels, label_prefix) ==
    SelectSeq(Enumerate(labels), LAMBDA l : StartsWith(l, label_prefix))

\* every matching label overwrites the result: the last one met stays
get_server_type(labels, default) ==
    LET m == LabelsWith(labels, type_prefix)
    IN  IF m = <<>> THEN default ELSE AfterPrefix(m[Len(m)], type_prefix)

get_server_location(labels, default) ==
    LET m == LabelsWith(labels, in_prefix)
    IN  IF m = <<>> THEN default ELSE AfterPrefix(m[Len(m)], in_prefix)[1]

get_server_image(labels, default) ==
    LET m == LabelsWith(labels, image_prefix)
    IN  IF m = <<>> THEN default ELSE AfterPrefix(m[Len(m)], image_prefix)

get_startup_script(server_type) ==
    IF StartsWith(server_type, <<"ca">>) THEN "startup_arm64" ELSE "startup_x64"

\* the provider's label map of a server: one entry per label, plus the SSH key
server_labels(labels, ssh_key) ==
    LET e == Enumerate(labels)
        keys == {label_key_prefix \o <<"-", i - 1>> : i \in 1..Len(e)}
    IN  [k \in keys \cup {server_ssh_key_label} |->
            IF k = server_ssh_key_label THEN ssh_key ELSE e[k[3] + 1]]

\* the label set the collector reads back from a provider label map
runner_labels_of(cloud_labels) ==
    {cloud_labels[k] : k \in {q \in DOMAIN cloud_labels : StartsWith(q, label_key_prefix)}}

\* dict.get("github-runner-ssh-key")
ssh_key_label_of(cloud_labels) ==
    IF server_ssh_key_label \in DOMAIN cloud_labels
    THEN cloud_labels[server_ssh_key_label] ELSE NoneName

\* ----------------------------------------------------------- RunnerServer
\* the handle of the provider's server, with the label map it was listed with
NoServer == [id |-> 0, labels |-> <<>>]

RunnerServer(name, labels, server_type, server_location) ==
    [name |-> name, labels |-> labels, server_type |-> server_type,
     server_location |-> server_location, server_status |-> STATUS_STARTING,
     status |-> "initializing", server |-> NoServer]

\* ---------------------------------------------------------------- counts
\* a count that takes the servers of busy runners for available
count_any_status(servers, labels) ==
    Cardinality({i \in 1..Len(servers) :
        /\ servers[i].server_status # STATUS_OFF
        /\ labels \subseteq servers[i].labels})

count_available(servers, labels) ==
    Cardinality({i \in 1..Len(servers) :
        /\ servers[i].server_status # STATUS_OFF
        /\ labels \subseteq servers[i].labels
        /\ servers[i].status \in {"initializing", "ready"}})

count_present(servers, labels) ==
    Cardinality({i \in 1..Len(servers) :
        /\ servers[i].server_status # STATUS_OFF
        /\ labels \subseteq servers[i].labels})

max_servers_in_workflow_run_reached(run_id, servers, max_servers_in_workflow_run) ==
    LET run_server_name_prefix == server_name_prefix \o run_id
        servers_in_run == SelectSeq(servers,
            LAMBDA server : StartsWith(server.name, run_server_name_prefix))
    IN  Len(servers_in_run) >= max_servers_in_workflow_run

\* ------------------------------------------------------------ the world
Lx == <<"x">>
Lsmall == <<"small">>
Ltype_b == <<"type-", "b">>
Lin_fsn == <<"in-", "fsn">>
Limage == <<"image-", "debian">>

ssh_key == <<"k1">>
old_ssh_key == <<"k0">>
default_server_type == <<"a">>
default_location == NoneLocation
default_image == <<"ubuntu">>

\* the price table, when one is configured: type u has no price
PriceTable == (<<"a">> :> 5) @@ (<<"b">> :> 2)
NonePrices == [is_none |-> TRUE, price |-> <<>>]
Prices == [is_none |-> FALSE, price |-> PriceTable]

StandbyRunner(labels, count, replenish_immediately) ==
    [labels |-> labels, count |-> count, replenish_immediately |-> replenish_immediately]

CloudServer(id, name, server_type, location, status, labels, key) ==
    [id |-> id, name |-> name, server_type |-> server_type, location |-> location,
     status |-> status, labels |-> server_labels(labels, key)]

Runner(id, name, busy, labels) ==
    [id |-> id, name |-> name, status |-> "online", busy |-> busy, labels |-> labels]

StandbyName(u) == standby_server_name_prefix \o <<u>>
RecycleName(u) == recycle_server_name_prefix \o <<u>>
JobServerName(run_id, job_id) == server_name_prefix \o run_id \o <<"-">> \o job_id

\* the workflow runs of the repository and their jobs, as the CI provider lists them
Runs == {<<"1">>, <<"1", "2">>}
JobList == <<
    [run_id |-> <<"1">>, id |-> <<"7">>, labels |-> {Lx}],
    [run_id |-> <<"1">>, id |-> <<"8">>, labels |-> {Lsmall}],
    [run_id |-> <<"1", "2">>, id |-> <<"7">>, labels |-> {Lx, Ltype_b}] >>

JobsOf(run_id) == SelectSeq(<<1, 2, 3>>, LAMBDA j : JobList[j].run_id = run_id)

\* the fleets the service may find when it starts
FleetStandby == <<
    CloudServer(1, StandbyName("s1"), <<"a">>, "fsn", STATUS_RUNNING, {Lx}, ssh_key),
    CloudServer(2, StandbyName("s2"), <<"a">>, "fsn", STATUS_RUNNING, {Lx}, ssh_key) >>
FleetRecyclable == <<
    CloudServer(1, RecycleName("ra"), <<"a">>, "fsn", STATUS_OFF, {Lx}, old_ssh_key),
    CloudServer(2, RecycleName("ru"), <<"u">>, "fsn", STATUS_OFF, {Lx}, old_ssh_key),
    CloudServer(3, RecycleName("rb"), <<"b">>, "fsn", STATUS_OFF, {Lx}, old_ssh_key) >>
FleetMixed == <<
    CloudServer(1, RecycleName("rm"), <<"b">>, "fsn", STATUS_OFF, {Lx}, ssh_key),
    CloudServer(2, JobServerName(<<"3">>, <<"1">>), <<"b">>, "fsn", STATUS_RUNNING,
                {Lx, Lsmall, Ltype_b, Lin_fsn, Limage}, ssh_key),
    CloudServer(3, <<"database-">>, <<"a">>, "fsn", STATUS_RUNNING, {}, ssh_key) >>

\* a server renamed for recycling that is still shutting down, and a powered-off
\* one with an old key
FleetStopping == <<
    CloudServer(1, RecycleName("rs"), <<"a">>, "fsn", STATUS_STOPPING, {Lx}, ssh_key),
    CloudServer(2, RecycleName("ro"), <<"a">>, "fsn", STATUS_OFF, {Lx}, old_ssh_key) >>

\* the runners registered for the running servers of a fleet
RunnersOf(fleet) ==
    {Runner(fleet[i].id, fleet[i].name, FALSE, runner_labels_of(fleet[i].labels)) :
        i \in {k \in 1..Len(fleet) : /\ fleet[k].status = STATUS_RUNNING
                                      /\ StartsWith(fleet[k].name, runner_name_prefix)}}

\* ------------------------------------------------------------- the state
VARIABLES
    \* scale_up's parameters
    recycle, server_prices, with_label, max_servers, max_servers_in_workflow_run,
    standby_runners,
    \* the cloud provider, the CI provider and the termination event
    cloud, runners, jobs, queued_runs, terminate,
    \* the control loop: its position and the locals of the cycle
    pc, cycle, workflow_runs, run_i, job_i, pool_i, available, remaining, wait_i,
    abandoned, servers, futures,
    \* the worker pools' live tasks, the number of tasks ever submitted, the uid
    \* source, the number of changes the external systems have made and the number
    \* of requests that have failed
    tasks, task_count, next_uid, env_steps, faults,
    \* what the last decision did, the servers evicted in this cycle, the snapshot
    \* as the cycle collected it, the snapshot and the number of submitted
    \* tasks as they were when the pool spec at hand began, and the names of the
    \* servers whose provisioning had failed when the cycle began
    lastOp, evicted, collected, pool_start, failed,
    \* one call of wait_ssh: its position, its timeout, its attempt number, the
    \* seconds since start_time, the return code of its last ssh command, and the
    \* number of ssh commands it has run with the timeout elapsed
    ssh_pc, timeout, attempt, elapsed, returncode, late

wait_ssh_frame == <<ssh_pc, timeout, attempt, elapsed, returncode, late>>
config == <<recycle, server_prices, with_label, max_servers,
            max_servers_in_workflow_run, standby_runners>>
world == <<cloud, runners, jobs, queued_runs, terminate>>
position == <<pc, cycle, workflow_runs, run_i, job_i, pool_i, available, remaining, wait_i,
              abandoned>>
locals == <<servers, futures>>
history == <<lastOp, evicted, collected, pool_start, failed>>
counters == <<task_count, next_uid>>
\* the variables only create_runner_server writes
provisioning == <<cloud, servers, futures, tasks, task_count, evicted, faults>>
external == <<runners, jobs, queued_runs, terminate>>
service == <<config, world, position, locals, tasks, counters, env_steps, faults, history>>
vars == <<service, wait_ssh_frame>>

NoOp == [kind |-> "none", caller |-> "none", job |-> 0, pool |-> 0, name |-> NoneName,
         labels |-> {}, victim |-> NoneName, deleted |-> FALSE, before |-> <<>>]

Op(kind, caller, job, pool, name, labels, victim, deleted) ==
    [kind |-> kind, caller |-> caller, job |-> job, pool |-> pool, name |-> name,
     labels |-> labels, victim |-> victim, deleted |-> deleted, before |-> servers]

NoPool == [futures |-> 0, servers |-> <<>>]

QueuedJob == [status |-> "queued", runner_name |-> NoneName, runner_id |-> 0]

\* the sequences of queued runs the CI provider may return
RECURSIVE SeqsUpTo(_, _)
SeqsUpTo(S, n) ==
    IF n = 0 THEN {<<>>}
    ELSE LET shorter == SeqsUpTo(S, n - 1)
         IN  shorter \cup {Append(q, x) : q \in shorter, x \in S}

Scenario(r, prices, label, max, run_max, pools, fleet) ==
    [recycle |-> r, server_prices |-> prices, with_label |-> label, max_servers |-> max,
     max_servers_in_workflow_run |-> run_max, standby_runners |-> pools, cloud |-> fleet]

\* the configurations the service is started with, each with the fleet it finds
Scenarios == {
    Scenario(TRUE, Prices, NoneName, 3, NoneInt, <<>>, FleetRecyclable),
    Scenario(TRUE, NonePrices, Lx, 3, NoneInt, <<>>, FleetRecyclable),
    Scenario(FALSE, NonePrices, NoneName, 3, NoneInt,
             <<StandbyRunner({Lx}, 2, TRUE)>>, FleetStandby),
    Scenario(TRUE, NonePrices, NoneName, 3, NoneInt,
             <<StandbyRunner({Lx}, 2, FALSE)>>, FleetStandby),
    Scenario(TRUE, Prices, NoneName, 3, 1, <<>>, FleetMixed),
    Scenario(TRUE, Prices, Lx, NoneInt, NoneInt, <<>>, FleetMixed),
    Scenario(TRUE, Prices, NoneName, 2, NoneInt, <<>>, FleetMixed),
    Scenario(TRUE, Prices, Lsmall, 2, NoneInt, <<StandbyRunner({Lx}, 2, TRUE)>>,
             FleetStopping),
    Scenario(FALSE, NonePrices, Lx, 3, NoneInt,
             <<StandbyRunner({Lx, Lsmall}, 1, TRUE), StandbyRunner({Lx}, 2, TRUE)>>,
             FleetStandby) }

Init ==
    /\ \E sc \in Scenarios :
        /\ recycle = sc.recycle
        /\ server_prices = sc.server_prices
        /\ with_label = sc.with_label
        /\ max_servers = sc.max_servers
        /\ max_servers_in_workflow_run = sc.max_servers_in_workflow_run
        /\ standby_runners = sc.standby_runners
        /\ cloud = sc.cloud
    /\ runners = RunnersOf(cloud)
    /\ jobs = [j \in 1..Len(JobList) |-> QueuedJob]
    /\ queued_runs \in SeqsUpTo(Runs, MaxRuns)
    /\ terminate = FALSE
    /\ pc = "top"
    /\ cycle = 1
    /\ workflow_runs = <<>>
    /\ run_i = 0 /\ job_i = 0 /\ pool_i = 0 /\ available = 0 /\ remaining = 0
    /\ wait_i = 0
    /\ collected = <<>> /\ pool_start = NoPool /\ failed = {}
    /\ abandoned = FALSE
    /\ servers = <<>>
    /\ futures = <<>>
    /\ tasks = <<>>
    /\ task_count = 0
    /\ next_uid = 1
    /\ env_steps = 0
    /\ faults = 0
    /\ lastOp = NoOp
    /\ evicted = <<>>
    /\ ssh_pc = "idle" /\ timeout = 0 /\ attempt = -1 /\ elapsed = 0
    /\ returncode = NoneInt /\ late = 0

\* --------------------------------------------------- create_runner_server
Names(ss) == {ss[i].name : i \in 1..Len(ss)}

\* where the decision is being taken: the job or the pool spec at hand
CurrentJob == IF pc = "jobs" THEN JobsOf(workflow_runs[run_i])[job_i] ELSE 0
CurrentPool == IF pc = "replenish" THEN pool_i ELSE 0
Decision(kind, name, labels, victim, deleted) ==
    Op(kind, IF pc = "jobs" THEN "job" ELSE "standby", CurrentJob, CurrentPool,
       name, labels, victim, deleted)

Task(kind, name, server_name, labels, server_type, server_location, server_image) ==
    [kind |-> kind, name |-> name, server_name |-> server_name, labels |-> labels,
     server_type |-> server_type, server_location |-> server_location,
     server_image |-> server_image,
     startup_script |-> get_startup_script(server_type),
     id |-> task_count + 1, state |-> "submitted", boot |-> "none", cycle |-> cycle]

is_recyclable(server) == StartsWith(server.name, recycle_server_name_prefix)

\* a test that does not look at the ssh key label
recycle_match_any_key(server, server_type, server_location) ==
    /\ server.server_type = server_type
    /\ (server_location = NoneLocation \/ server.server_location = server_location)

\* the test a recyclable server must pass to be rebuilt for the requirement
recycle_match(server, server_type, server_location) ==
    /\ server.server_type = server_type
    /\ (server_location = NoneLocation \/ server.server_location = server_location)
    /\ ssh_key_label_of(server.server.labels) = ssh_key

\* the key of the price sort: <<0, price>>, or <<1, 0>> for math.inf
sorting_key(server) ==
    IF server.server_type \in DOMAIN server_prices.price
    THEN <<0, server_prices.price[server.server_type]>>
    ELSE <<1, 0>>

KeyLess(a, b) == a[1] < b[1] \/ (a[1] = b[1] /\ a[2] < b[2])

\* list.sort(key=sorting_key, reverse=True): descending, equal keys keep their order
RECURSIVE SortReverse(_)
SortReverse(s) ==
    IF s = <<>> THEN <<>>
    ELSE LET x == s[Len(s)]
             rest == SortReverse(SubSeq(s, 1, Len(s) - 1))
             \* x goes behind every element whose key is not less than its own
             n == Cardinality({i \in 1..Len(rest) :
                     ~KeyLess(sorting_key(rest[i]), sorting_key(x))})
         IN  SubSeq(rest, 1, n) \o <<x>> \o SubSeq(rest, n + 1, Len(rest))

\* a pop from the front of the sorted list: pop(0)
FrontCandidates(recyclable_servers) ==
    IF server_prices.is_none
    THEN Range(recyclable_servers)
    ELSE {SortReverse(recyclable_servers)[1]}

\* the servers recyclable_servers.pop() can return after the shuffle or the sort
EvictionCandidates(recyclable_servers) ==
    IF server_prices.is_none
    THEN Range(recyclable_servers)
    ELSE {SortReverse(recyclable_servers)[Len(recyclable_servers)]}

\* a maximum that only counts as reached once it is exceeded
max_servers_exceeded == max_servers # NoneInt /\ Len(servers) > max_servers

\* the fleet-wide maximum is configured and reached
max_servers_reached == max_servers # NoneInt /\ Len(servers) >= max_servers

create_runner_server(name, labels) ==
    LET server_type == get_server_type(labels, default_server_type)
        server_location == get_server_location(labels, default_location)
        server_image == get_server_image(labels, default_image)
        scanned == IF recycle THEN SelectSeq(servers, is_recyclable) ELSE <<>>
        matching == SelectSeq(scanned,
            LAMBDA server : recycle_match(server, server_type, server_location))
        placeholder == RunnerServer(name, labels, server_type, server_location)
        create_task == Task("create", name, NoneName, labels, server_type,
                            server_location, server_image)
    IN  IF matching # <<>>
        THEN LET server == matching[1]
             IN /\ tasks' = Append(tasks, Task("recycle", name, server.name, labels,
                                server_type, server_location, server_image))
                /\ futures' = Append(futures, Len(tasks) + 1)
                /\ task_count' = task_count + 1
                /\ servers' = Append(PopAt(servers, IndexOf(servers, server)), placeholder)
                /\ lastOp' = Decision("recycle", name, labels, server.name, FALSE)
                /\ UNCHANGED <<cloud, evicted, faults>>
        ELSE IF max_servers_reached
        THEN IF scanned # <<>>
             THEN \E recyclable_server \in EvictionCandidates(scanned), deleted \in BOOLEAN :
                /\ deleted \/ faults < MaxFaults
                /\ faults' = IF deleted THEN faults ELSE faults + 1
                /\ cloud' = IF deleted
                            THEN SelectSeq(cloud,
                                    LAMBDA c : c.id # recyclable_server.server.id)
                            ELSE cloud
                /\ tasks' = Append(tasks, create_task)
                /\ futures' = Append(futures, Len(tasks) + 1)
                /\ task_count' = task_count + 1
                /\ servers' = Append(PopAt(servers, IndexOf(servers, recyclable_server)),
                                     placeholder)
                /\ evicted' = Append(evicted, recyclable_server)
                /\ lastOp' = Decision("evict_create", name, labels,
                                      recyclable_server.name, deleted)
             ELSE \* raise StopIteration
                /\ lastOp' = Decision("exhausted", name, labels, NoneName, FALSE)
                /\ UNCHANGED provisioning
        ELSE
            /\ tasks' = Append(tasks, create_task)
            /\ futures' = Append(futures, Len(tasks) + 1)
            /\ task_count' = task_count + 1
            /\ servers' = Append(servers, placeholder)
            /\ lastOp' = Decision("create", name, labels, NoneName, FALSE)
            /\ UNCHANGED <<cloud, evicted, faults>>

\* ------------------------------------------------------------- collecting
\* the runner status of a server: that of the online runner of the same name
correlate(name) ==
    LET online == {r \in runners : /\ StartsWith(r.name, runner_name_prefix)
                                   /\ r.name = name /\ r.status = "online"}
    IN  IF online = {} THEN "initializing"
        ELSE IF (CHOOSE r \in online : TRUE).busy THEN "busy" ELSE "ready"

collect_servers ==
    LET fleet == SelectSeq(cloud, LAMBDA c : StartsWith(c.name, server_name_prefix))
    IN  [i \in 1..Len(fleet) |->
            [name |-> fleet[i].name,
             labels |-> runner_labels_of(fleet[i].labels),
             server_type |-> fleet[i].server_type,
             server_location |-> fleet[i].location,
             server_status |-> fleet[i].status,
             status |-> correlate(fleet[i].name),
             server |-> [id |-> fleet[i].id, labels |-> fleet[i].labels]]]

\* a task nobody will look at again: finished, its bootstrap neither pending nor
\* running
Live(task) ==
    task.state \in {"submitted", "waiting"} \/ task.boot \in {"queued", "running"}

\* the names of the servers whose create or recycle task, or whose bootstrap, failed
FailedNames ==
    {tasks[t].name : t \in {u \in 1..Len(tasks) :
        tasks[u].state = "failed" \/ tasks[u].boot = "failed"}}

\* an exception that leaves the loop
AbandonAndLeave ==
    /\ abandoned' = TRUE
    /\ pc' = "terminated"

\* the exception handler of the loop: the cycle is abandoned
Abandon ==
    /\ abandoned' = TRUE
    /\ pc' = "sleep"

\* a request fails
Fault ==
    /\ faults < MaxFaults
    /\ faults' = faults + 1

LoopExit ==
    /\ pc = "top" /\ terminate
    /\ pc' = "terminated"
    /\ UNCHANGED <<wait_ssh_frame, config, world, cycle, workflow_runs, run_i, job_i, pool_i, available,
                   remaining, wait_i, abandoned, locals, tasks, counters, env_steps, faults,
                   history>>

Collect ==
    /\ pc = "top" /\ ~terminate
    /\ workflow_runs' = queued_runs
    /\ futures' = <<>>
    /\ servers' = collect_servers
    /\ collected' = collect_servers
    /\ tasks' = SelectSeq(tasks, Live)
    /\ pc' = "runs" /\ run_i' = 1
    /\ abandoned' = FALSE
    /\ lastOp' = NoOp /\ evicted' = <<>> /\ pool_start' = NoPool
    /\ failed' = FailedNames
    /\ UNCHANGED <<wait_ssh_frame, config, world, cycle, job_i, pool_i, available, remaining, wait_i,
                   counters, env_steps, faults>>

\* a request of the collecting step fails
CollectFails ==
    /\ pc = "top" /\ ~terminate
    /\ Fault
    /\ Abandon
    /\ futures' = <<>>
    /\ tasks' = SelectSeq(tasks, Live)
    /\ lastOp' = NoOp /\ evicted' = <<>> /\ pool_start' = NoPool
    /\ failed' = FailedNames
    /\ UNCHANGED <<wait_ssh_frame, config, world, cycle, workflow_runs, run_i, job_i, pool_i, available,
                   remaining, wait_i, servers, counters, env_steps, collected>>

\* ---------------------------------------------------------------- the jobs
\* a loop that never applies the per-run cap
run_cap_ignored(run_id) == FALSE

run_cap_reached(run_id) ==
    /\ max_servers_in_workflow_run # NoneInt
    /\ max_servers_in_workflow_run_reached(run_id, servers, max_servers_in_workflow_run)

\* the head of the loop over the runs: the cap check that skips a whole run
BeginRun ==
    /\ pc = "runs"
    /\ IF run_i > Len(workflow_runs)
       THEN /\ pc' = "standby" /\ pool_i' = 1
            /\ UNCHANGED <<run_i, job_i>>
       ELSE IF run_cap_reached(workflow_runs[run_i])
       THEN /\ run_i' = run_i + 1
            /\ UNCHANGED <<pc, job_i, pool_i>>
       ELSE /\ pc' = "jobs" /\ job_i' = 1
            /\ UNCHANGED <<run_i, pool_i>>
    /\ UNCHANGED <<wait_ssh_frame, config, world, cycle, workflow_runs, available, remaining, wait_i,
                   abandoned, locals, tasks, counters, env_steps, faults, history>>

\* run.jobs() fails
BeginRunFails ==
    /\ pc = "runs" /\ run_i <= Len(workflow_runs)
    /\ ~run_cap_reached(workflow_runs[run_i])
    /\ Fault
    /\ Abandon
    /\ UNCHANGED <<wait_ssh_frame, config, world, cycle, workflow_runs, run_i, job_i, pool_i, available,
                   remaining, wait_i, locals, tasks, counters, env_steps, history>>

\* a name check that looks at the servers collected from the cloud only
server_collected(server_name) == server_name \in Names(collected)

server_exists(server_name) == server_name \in Names(servers)

\* a loop without the check of the runner's name
on_other_runner(j) == FALSE

on_standby_runner(j) == StartsWith(jobs[j].runner_name, standby_runner_name_prefix)

runner_registered(j) == \E r \in runners : r.id = jobs[j].runner_id

\* the labels of the runner the job runs on, as the CI provider has them
runner_labels(j) ==
    (CHOOSE r \in runners : r.id = jobs[j].runner_id).labels

\* the labels the job declares, whatever its status
declared_labels(j) == JobList[j].labels

\* the labels the job is matched with
job_labels(j) ==
    IF jobs[j].status = "in_progress" THEN runner_labels(j) ELSE JobList[j].labels

label_filtered(labels) == with_label # NoneName /\ with_label \notin labels

Continue(kind, name, labels) ==
    /\ job_i' = job_i + 1
    /\ lastOp' = Decision(kind, name, labels, NoneName, FALSE)
    /\ UNCHANGED <<pc, run_i, pool_i, provisioning>>

\* except StopIteration around the loops over the runs and the jobs: the
\* standby pass is next
StopJobs == pc' = "standby" /\ pool_i' = 1 /\ UNCHANGED <<run_i, job_i>>

ProcessJob ==
    /\ pc = "jobs"
    /\ LET js == JobsOf(workflow_runs[run_i]) IN
       IF job_i > Len(js)
       THEN /\ pc' = "runs" /\ run_i' = run_i + 1
            /\ UNCHANGED <<job_i, pool_i, provisioning, lastOp>>
       ELSE LET j == js[job_i]
                server_name == JobServerName(JobList[j].run_id, JobList[j].id)
                labels == job_labels(j)
            IN  IF jobs[j].status = "completed"
                THEN Continue("completed", server_name, JobList[j].labels)
                ELSE IF server_exists(server_name)
                THEN Continue("exists", server_name, JobList[j].labels)
                ELSE IF jobs[j].status = "in_progress" /\ on_standby_runner(j)
                THEN Continue("on_standby", server_name, JobList[j].labels)
                ELSE IF jobs[j].status = "in_progress" /\ ~runner_registered(j)
                THEN FALSE  \* the lookup raises: RunnerLookupFails
                ELSE IF run_cap_reached(workflow_runs[run_i])
                THEN \* break
                     /\ pc' = "runs" /\ run_i' = run_i + 1
                     /\ lastOp' = Decision("run_cap", server_name, labels, NoneName, FALSE)
                     /\ UNCHANGED <<job_i, pool_i, provisioning>>
                ELSE IF label_filtered(labels)
                THEN Continue("filtered", server_name, labels)
                ELSE /\ create_runner_server(server_name, labels)
                     /\ IF lastOp'.kind = "exhausted"
                        THEN StopJobs
                        ELSE job_i' = job_i + 1 /\ UNCHANGED <<pc, run_i, pool_i>>
    /\ UNCHANGED <<wait_ssh_frame, config, external, cycle, workflow_runs, available, remaining, wait_i,
                   abandoned, next_uid, env_steps, collected, pool_start, failed>>

\* the request for the runner of an in-progress job fails, or finds no such runner
RunnerLookupFails ==
    /\ pc = "jobs"
    /\ LET js == JobsOf(workflow_runs[run_i]) IN
       /\ job_i <= Len(js)
       /\ jobs[js[job_i]].status = "in_progress"
       /\ ~server_exists(JobServerName(JobList[js[job_i]].run_id, JobList[js[job_i]].id))
       /\ ~on_standby_runner(js[job_i])
       /\ IF runner_registered(js[job_i]) THEN Fault ELSE UNCHANGED faults
    /\ Abandon
    /\ UNCHANGED <<wait_ssh_frame, config, world, cycle, workflow_runs, run_i, job_i, pool_i, available,
                   remaining, wait_i, locals, tasks, counters, env_steps, history>>

\* ---------------------------------------------------------- the standby pool
\* the call the loop makes to count the servers of a pool spec: the count, or
\* the TypeError of a call whose keyword names no parameter of the function
Returned(value) == [raised |-> FALSE, value |-> value]
Raised == [raised |-> TRUE, value |-> 0]

standby_available(standby_runner) ==
    IF standby_runner.replenish_immediately
    THEN Returned(count_available(servers, standby_runner.labels))
    ELSE Raised  \* count_present(server=servers, labels=labels)

\* the head of the loop over the pool specs: the count and the deficit
BeginPool ==
    /\ pc = "standby"
    /\ IF pool_i > Len(standby_runners)
       THEN /\ pc' = "wait" /\ wait_i' = 1
            /\ UNCHANGED <<pool_i, available, remaining, abandoned, pool_start, lastOp>>
       ELSE LET standby_runner == standby_runners[pool_i]
                call == standby_available(standby_runner)
            IN  IF call.raised
                THEN /\ Abandon
                     /\ lastOp' = Op("TypeError", "standby", 0, pool_i, NoneName,
                                     standby_runner.labels, NoneName, FALSE)
                     /\ UNCHANGED <<pool_i, available, remaining, wait_i, pool_start>>
                ELSE /\ available' = call.value
                     /\ remaining' = IF call.value < standby_runner.count
                                     THEN standby_runner.count - call.value ELSE 0
                     /\ pool_start' = [futures |-> Len(futures), servers |-> servers]
                     /\ pc' = "replenish"
                     /\ lastOp' = Op("pool", "standby", 0, pool_i, NoneName,
                                     standby_runner.labels, NoneName, FALSE)
                     /\ UNCHANGED <<pool_i, wait_i, abandoned>>
    /\ UNCHANGED <<wait_ssh_frame, config, world, cycle, workflow_runs, run_i, job_i, locals, tasks,
                   counters, env_steps, faults, evicted, collected, failed>>

uid == ToString(next_uid)

\* a capacity signal that ends the whole standby pass
StopStandby ==
    pc' = "standby" /\ pool_i' = Len(standby_runners) + 1 /\ UNCHANGED remaining

\* except StopIteration in the loop over the deficit: break, the next pool spec
\* is next
StopPool == pc' = "standby" /\ pool_i' = pool_i + 1 /\ UNCHANGED remaining

\* one turn of the loop over the deficit of the pool spec
Replenish ==
    /\ pc = "replenish"
    /\ IF remaining = 0
       THEN /\ pc' = "standby" /\ pool_i' = pool_i + 1
            /\ UNCHANGED <<remaining, next_uid, provisioning, lastOp>>
       ELSE /\ next_uid <= MaxUid
            /\ next_uid' = next_uid + 1
            /\ create_runner_server(StandbyName(uid), standby_runners[pool_i].labels)
            /\ IF lastOp'.kind = "exhausted"
               THEN StopPool
               ELSE remaining' = remaining - 1 /\ UNCHANGED <<pc, pool_i>>
    /\ UNCHANGED <<wait_ssh_frame, config, external, cycle, workflow_runs, run_i, job_i, available, wait_i,
                   abandoned, env_steps, collected, pool_start, failed>>

\* ------------------------------------------------------------ wait and sleep
\* a result() that returns before the task has run
result_at_once(t) == TRUE

finished(t) == tasks[t].state \in {"done", "failed"}

\* a wait that lets the exception of a failed task out: the cycle is abandoned
WaitFutureRaising ==
    /\ pc = "wait"
    /\ IF wait_i > Len(futures)
       THEN pc' = "sleep" /\ UNCHANGED <<wait_i, abandoned>>
       ELSE /\ finished(futures[wait_i])
            /\ IF tasks[futures[wait_i]].state = "failed"
               THEN Abandon /\ UNCHANGED wait_i
               ELSE wait_i' = wait_i + 1 /\ UNCHANGED <<pc, abandoned>>
    /\ UNCHANGED <<wait_ssh_frame, config, world, cycle, workflow_runs, run_i, job_i, pool_i, available,
                   remaining, locals, tasks, counters, env_steps, faults, history>>

\* future.result() of the next handle, its exception ignored
WaitFuture ==
    /\ pc = "wait"
    /\ IF wait_i > Len(futures)
       THEN pc' = "sleep" /\ UNCHANGED wait_i
       ELSE /\ finished(futures[wait_i])
            /\ wait_i' = wait_i + 1
            /\ UNCHANGED pc
    /\ UNCHANGED <<wait_ssh_frame, config, world, cycle, workflow_runs, run_i, job_i, pool_i, available,
                   remaining, abandoned, locals, tasks, counters, env_steps, faults, history>>

\* time.sleep(interval) returns
Sleep ==
    /\ pc = "sleep"
    /\ cycle < MaxCycles
    /\ pc' = "top"
    /\ cycle' = cycle + 1
    /\ UNCHANGED <<wait_ssh_frame, config, world, workflow_runs, run_i, job_i, pool_i, available,
                   remaining, wait_i, abandoned, locals, tasks, counters, env_steps, faults,
                   history>>

\* ------------------------------------------------------- the worker pools
\* The decision pass reads nothing but its snapshot, so a step of a task of the
\* same cycle taken during the pass commutes with it: the workers' steps are
\* interleaved with the loop where the loop blocks, in future.result() and in
\* time.sleep().
LoopBlocked == pc \in {"wait", "sleep", "terminated"}

\* A task an abandoned cycle has left in the outer pool's queue works on servers
\* the next cycle has in its snapshot: its requests are interleaved with the
\* decision pass of that cycle.
LeftBehind(t) == tasks[t].cycle < cycle /\ pc \in {"runs", "jobs", "standby", "replenish"}

SetTask(t, state, boot) == tasks' = [tasks EXCEPT ![t].state = state, ![t].boot = boot]

CloudNames == {cloud[i].name : i \in 1..Len(cloud)}

\* a worker of the outer pool takes the task, the first of the pool's queue, and
\* sends its requests
TaskStart(t) ==
    /\ LoopBlocked \/ LeftBehind(t)
    /\ tasks[t].state = "submitted"
    /\ \A u \in 1..(t - 1) : tasks[u].state # "submitted"
    /\ Cardinality({u \in 1..Len(tasks) : tasks[u].state = "waiting"}) < max_workers
    /\ \E ok \in BOOLEAN :
        /\ IF ok THEN UNCHANGED faults ELSE Fault
        /\ IF tasks[t].kind = "create"
           THEN IF ok /\ tasks[t].name \notin CloudNames
                THEN /\ cloud' = Append(cloud,
                           CloudServer(10 + tasks[t].id, tasks[t].name,
                               tasks[t].server_type,
                               IF tasks[t].server_location = NoneLocation
                               THEN "fsn" ELSE tasks[t].server_location,
                               STATUS_STARTING, tasks[t].labels, ssh_key))
                     /\ SetTask(t, "waiting", "none")
                ELSE /\ SetTask(t, "failed", "none")
                     /\ UNCHANGED cloud
           ELSE IF /\ ok /\ tasks[t].server_name \in CloudNames
                   /\ tasks[t].name \notin CloudNames
                THEN /\ cloud' = [i \in 1..Len(cloud) |->
                           IF cloud[i].name = tasks[t].server_name
                           THEN [cloud[i] EXCEPT !.name = tasks[t].name,
                                     !.labels = server_labels(tasks[t].labels, ssh_key),
                                     !.status = STATUS_STARTING]
                           ELSE cloud[i]]
                     /\ SetTask(t, "waiting", "none")
                ELSE /\ SetTask(t, "failed", "none")
                     /\ UNCHANGED cloud
    /\ UNCHANGED <<wait_ssh_frame, config, external, position, locals, counters, env_steps, history>>

\* the inner pool takes no task once the loop has left its with block
setup_worker_pool_open == pc # "terminated"

\* a task that returns when its server runs and submits no bootstrap
TaskReadyOnly(t) ==
    /\ LoopBlocked
    /\ tasks[t].state = "waiting"
    /\ tasks[t].name \in CloudNames
    /\ cloud' = [i \in 1..Len(cloud) |->
            IF cloud[i].name = tasks[t].name
            THEN [cloud[i] EXCEPT !.status = STATUS_RUNNING] ELSE cloud[i]]
    /\ SetTask(t, "done", "none")
    /\ UNCHANGED <<wait_ssh_frame, config, external, position, locals, counters, env_steps, faults, history>>

\* wait_ready sees the server running and the bootstrap goes to the inner pool;
\* the submit raises RuntimeError when that pool has been shut down
TaskReady(t) ==
    /\ LoopBlocked
    /\ tasks[t].state = "waiting"
    /\ tasks[t].name \in CloudNames
    /\ cloud' = [i \in 1..Len(cloud) |->
            IF cloud[i].name = tasks[t].name
            THEN [cloud[i] EXCEPT !.status = STATUS_RUNNING] ELSE cloud[i]]
    /\ IF setup_worker_pool_open
       THEN SetTask(t, "done", "queued")
       ELSE SetTask(t, "failed", "none")
    /\ UNCHANGED <<wait_ssh_frame, config, external, position, locals, counters, env_steps, faults, history>>

\* a task that submits the bootstrap although the wait has run out of time
TaskTimeoutThenSetup(t) ==
    /\ LoopBlocked
    /\ tasks[t].state = "waiting"
    /\ Fault
    /\ SetTask(t, "failed", "queued")
    /\ UNCHANGED <<wait_ssh_frame, config, world, position, locals, counters, env_steps, history>>

\* the rebuild fails or wait_ready runs out of time
TaskTimeout(t) ==
    /\ LoopBlocked
    /\ tasks[t].state = "waiting"
    /\ Fault
    /\ SetTask(t, "failed", "none")
    /\ UNCHANGED <<wait_ssh_frame, config, world, position, locals, counters, env_steps, history>>

\* an inner pool that starts a thread for every task it is given
setup_worker_always == TRUE

\* a worker of the inner pool is free
setup_worker_free ==
    Cardinality({u \in 1..Len(tasks) : tasks[u].boot = "running"}) < max_workers

\* a worker of the inner pool takes server_setup from the queue
BootstrapStart(t) ==
    /\ LoopBlocked
    /\ tasks[t].boot = "queued"
    /\ setup_worker_free
    /\ SetTask(t, tasks[t].state, "running")
    /\ UNCHANGED <<wait_ssh_frame, config, world, position, locals, counters, env_steps, faults, history>>

\* server_setup on a worker of the inner pool: the runner registers, or a step fails
Bootstrap(t) ==
    /\ LoopBlocked
    /\ tasks[t].boot = "running"
    /\ \E ok \in BOOLEAN :
        IF ok
        THEN /\ runners' = {r \in runners : r.name # tasks[t].name}
                    \cup {Runner(10 + tasks[t].id, tasks[t].name, FALSE, tasks[t].labels)}
             /\ SetTask(t, tasks[t].state, "ok")
             /\ UNCHANGED faults
        ELSE /\ SetTask(t, tasks[t].state, "failed")
             /\ Fault
             /\ UNCHANGED runners
    /\ UNCHANGED <<wait_ssh_frame, config, cloud, jobs, queued_runs, terminate, position, locals, counters,
                   env_steps, history>>

\* ------------------------------------------------------- the environment
\* the external systems move while the loop sleeps between two cycles
EnvStep ==
    /\ pc = "top"
    /\ env_steps < MaxEnvSteps
    /\ env_steps' = env_steps + 1

JobStarts(j, r) ==
    /\ EnvStep
    /\ jobs[j].status = "queued"
    /\ r.status = "online" /\ ~r.busy
    /\ JobList[j].labels \subseteq r.labels
    /\ jobs' = [jobs EXCEPT ![j] = [status |-> "in_progress", runner_name |-> r.name,
                                    runner_id |-> r.id]]
    /\ runners' = (runners \ {r}) \cup {[r EXCEPT !.busy = TRUE]}
    /\ UNCHANGED <<wait_ssh_frame, config, cloud, queued_runs, terminate, position, locals, tasks, counters,
                   faults, history>>

\* a job ends: it has run, or it is cancelled while queued
JobCompletes(j) ==
    /\ EnvStep
    /\ jobs[j].status # "completed"
    /\ jobs' = [jobs EXCEPT ![j].status = "completed"]
    /\ UNCHANGED <<wait_ssh_frame, config, cloud, runners, queued_runs, terminate, position, locals, tasks,
                   counters, faults, history>>

\* a runner takes a job of a run that is not listed as queued
RunnerBusy(r) ==
    /\ EnvStep
    /\ r.status = "online" /\ ~r.busy
    /\ runners' = (runners \ {r}) \cup {[r EXCEPT !.busy = TRUE]}
    /\ UNCHANGED <<wait_ssh_frame, config, cloud, jobs, queued_runs, terminate, position, locals, tasks,
                   counters, faults, history>>

\* the scale-down service deletes a server and its runner
ServerRemoved(i) ==
    /\ EnvStep
    /\ StartsWith(cloud[i].name, server_name_prefix)
    /\ cloud' = PopAt(cloud, i)
    /\ runners' = {r \in runners : r.name # cloud[i].name}
    /\ UNCHANGED <<wait_ssh_frame, config, jobs, queued_runs, terminate, position, locals, tasks, counters,
                   faults, history>>

Terminate ==
    /\ pc = "top"
    /\ ~terminate
    /\ terminate' = TRUE
    /\ UNCHANGED <<wait_ssh_frame, config, cloud, runners, jobs, queued_runs, position, locals, tasks,
                   counters, env_steps, faults, history>>

\* ------------------------------------------------------------------ Next
Next ==
    \/ LoopExit
    \/ Collect
    \/ CollectFails
    \/ BeginRun
    \/ BeginRunFails
    \/ ProcessJob
    \/ RunnerLookupFails
    \/ BeginPool
    \/ Replenish
    \/ WaitFuture
    \/ Sleep
    \/ \E t \in 1..Len(tasks) : TaskStart(t)
    \/ \E t \in 1..Len(tasks) : TaskReady(t)
    \/ \E t \in 1..Len(tasks) : TaskTimeout(t)
    \/ \E t \in 1..Len(tasks) : BootstrapStart(t)
    \/ \E t \in 1..Len(tasks) : Bootstrap(t)
    \/ \E j \in 1..Len(JobList), r \in runners : JobStarts(j, r)
    \/ \E j \in 1..Len(JobList) : JobCompletes(j)
    \/ \E r \in runners : RunnerBusy(r)
    \/ \E i \in 1..Len(cloud) : ServerRemoved(i)
    \/ Terminate

Spec == Init /\ [][Next]_vars

\* ================================================================ wait_ssh
\* the timeouts wait_ssh is called with, the seconds one ssh command takes and
\* the return codes of ssh: 0, or 255 for a failed connection
Timeouts == {0, 3, 10}
SshSeconds == {0, 1, 4}
ReturnCodes == {0, 255}

Later(n, max) == IF n >= max THEN max ELSE n

\* time.time() - start_time >= timeout
timeout_elapsed == elapsed >= timeout

\* one ssh command has run: the clock has moved and the command has returned
SshCommand(seconds, code) ==
    /\ elapsed' = Later(elapsed + seconds, MaxElapsed)
    /\ returncode' = code
    /\ late' = IF timeout_elapsed THEN Later(late + 1, MaxLate) ELSE late

\* the service is not running: wait_ssh is followed alone
WaitSshInit ==
    /\ recycle = FALSE /\ server_prices = NonePrices /\ with_label = NoneName
    /\ max_servers = NoneInt /\ max_servers_in_workflow_run = NoneInt
    /\ standby_runners = <<>>
    /\ cloud = <<>> /\ runners = {} /\ jobs = [j \in 1..Len(JobList) |-> QueuedJob]
    /\ queued_runs = <<>> /\ terminate = FALSE
    /\ pc = "top" /\ cycle = 1 /\ workflow_runs = <<>>
    /\ run_i = 0 /\ job_i = 0 /\ pool_i = 0 /\ available = 0 /\ remaining = 0
    /\ wait_i = 0 /\ abandoned = FALSE
    /\ servers = <<>> /\ futures = <<>>
    /\ tasks = <<>> /\ task_count = 0 /\ next_uid = 1 /\ env_steps = 0 /\ faults = 0
    /\ lastOp = NoOp /\ evicted = <<>> /\ collected = <<>> /\ pool_start = NoPool
    /\ failed = {}
    \* attempt = -1, start_time = time.time()
    /\ ssh_pc = "attempt"
    /\ timeout \in Timeouts
    /\ attempt = -1
    /\ elapsed = 0
    /\ returncode = NoneInt
    /\ late = 0

\* one round of the loop up to the sleep: the attempt that may fail, then the
\* look at the clock
WaitSshAttempt ==
    /\ ssh_pc = "attempt"
    /\ attempt' = Later(attempt + 1, MaxAttempt)
    /\ \E seconds \in SshSeconds, code \in ReturnCodes :
        /\ SshCommand(seconds, code)
        /\ ssh_pc' = IF code = 0 THEN "returned"
                     ELSE IF elapsed' >= timeout THEN "final" ELSE "sleep"
    /\ UNCHANGED <<service, timeout>>

\* ssh(server, "hostname") with the timeout elapsed: a failure is raised
WaitSshFinal ==
    /\ ssh_pc = "final"
    /\ \E seconds \in SshSeconds, code \in ReturnCodes :
        /\ SshCommand(seconds, code)
        \* a success raises nothing and the loop goes round again
        /\ ssh_pc' = IF code = 0 THEN "attempt" ELSE "raised"
    /\ UNCHANGED <<service, timeout, attempt>>

\* time.sleep(5)
WaitSshSleep ==
    /\ ssh_pc = "sleep"
    /\ elapsed' = Later(elapsed + 5, MaxElapsed)
    /\ ssh_pc' = "attempt"
    /\ UNCHANGED <<service, timeout, attempt, returncode, late>>

WaitSshNext ==
    \/ WaitSshAttempt
    \/ WaitSshFinal
    \/ WaitSshSleep

\* the thread that runs wait_ssh is scheduled, and every ssh command and every
\* sleep returns
WaitSshSpec == WaitSshInit /\ [][WaitSshNext]_vars /\ WF_vars(WaitSshNext)

\* ================================================================ properties
Submits == {"create", "recycle", "evict_create"}

\* the entry of a snapshot with the name
Named(ss, name) == ss[CHOOSE i \in 1..Len(ss) : ss[i].name = name]

\* C1: a job whose server name is already in the snapshot, collected from the
\* cloud or registered as a placeholder earlier in the cycle, gets no create or
\* recycle task, so that no two tasks of a cycle build a server of the same name.
C1_NoSecondServer ==
    /\ (lastOp.caller = "job" /\ lastOp.name \in Names(lastOp.before))
            => lastOp.kind \notin Submits
    /\ \A a, b \in 1..Len(futures) :
            a # b => tasks[futures[a]].name # tasks[futures[b]].name

\* a later cycle leaves a job alone whose server the cloud now has
C1_Witness ==
    /\ cycle = 2 /\ pc = "jobs"
    /\ lastOp.kind = "exists"
    /\ lastOp.name \in Names(collected)
    /\ jobs[lastOp.job].status # "completed"

\* the servers of a snapshot whose name is that of a job of the run
RunScoped(ss, run_id) ==
    Cardinality({i \in 1..Len(ss) :
        StartsWith(ss[i].name, server_name_prefix \o run_id \o <<"-">>)})

\* C2: with a per-run cap, a run that starts the pass with at most the cap of
\* servers named for its jobs has at most the cap of them in the snapshot
\* during and after the pass.
C2_RunCap ==
    max_servers_in_workflow_run # NoneInt =>
        \A run_id \in Runs :
            RunScoped(collected, run_id) <= max_servers_in_workflow_run
                => RunScoped(servers, run_id) <= max_servers_in_workflow_run

\* the cap stops the jobs of a run that the pass has brought to the cap
C2_Witness ==
    /\ max_servers_in_workflow_run # NoneInt
    /\ lastOp.kind = "run_cap"
    /\ RunScoped(collected, JobList[lastOp.job].run_id) < max_servers_in_workflow_run
    /\ RunScoped(servers, JobList[lastOp.job].run_id) = max_servers_in_workflow_run

\* C3: with a fleet-wide maximum and a cycle that collects at most max_servers
\* servers, the snapshot never holds more than max_servers servers, and a
\* decision taken at the maximum that submits a task recycles or evicts one of
\* the recyclable servers of the snapshot.
C3_SnapshotWithinMax ==
    (max_servers # NoneInt /\ Len(collected) <= max_servers) =>
        /\ Len(servers) <= max_servers
        /\ (lastOp.kind \in Submits /\ Len(lastOp.before) >= max_servers) =>
                /\ lastOp.kind \in {"recycle", "evict_create"}
                /\ lastOp.victim \in Names(lastOp.before)
                /\ is_recyclable(Named(lastOp.before, lastOp.victim))
                /\ Len(servers) = Len(lastOp.before)

\* at the maximum a recyclable server is evicted and the snapshot stays at it
C3_Witness ==
    /\ max_servers # NoneInt /\ Len(collected) = max_servers
    /\ lastOp.kind = "evict_create"
    /\ Len(servers) = max_servers

\* the servers of the fleet the cloud provider has
FleetAtProvider ==
    Cardinality({i \in 1..Len(cloud) : StartsWith(cloud[i].name, server_name_prefix)})

\* C4: the cloud provider never has more than max_servers servers of the fleet
\* in a cycle that collected at most max_servers of them, a failed deletion of
\* the evicted server included.
C4_ProviderWithinMax ==
    (max_servers # NoneInt /\ Len(collected) <= max_servers)
        => FleetAtProvider <= max_servers

PriceKnown(server) == server.server_type \in DOMAIN server_prices.price
PriceOf(server) == server_prices.price[server.server_type]
Recyclables(ss) == {ss[i] : i \in {k \in 1..Len(ss) : is_recyclable(ss[k])}}

\* C5: with a price table, the evicted server has the least known price among
\* the recyclable servers of the snapshot, and a server of unknown price is
\* evicted only when no recyclable server has a known price; the evictions of
\* a cycle therefore go from cheap to dear, the unknown prices last.
C5_CheapestEvicted ==
    ~server_prices.is_none =>
        /\ lastOp.kind = "evict_create" =>
            LET victim == Named(lastOp.before, lastOp.victim)
                others == Recyclables(lastOp.before)
            IN  /\ victim \in others
                /\ PriceKnown(victim) =>
                        \A s \in others : PriceKnown(s) => PriceOf(victim) <= PriceOf(s)
                /\ ~PriceKnown(victim) => \A s \in others : ~PriceKnown(s)
        /\ \A a, b \in 1..Len(evicted) :
            a < b =>
                /\ PriceKnown(evicted[b]) => PriceKnown(evicted[a])
                /\ (PriceKnown(evicted[a]) /\ PriceKnown(evicted[b]))
                        => PriceOf(evicted[a]) <= PriceOf(evicted[b])

\* prices a: 5, b: 2 and no price for u: the evictions are b, a, u
C5_Witness ==
    /\ ~server_prices.is_none
    /\ Len(evicted) = 3
    /\ [i \in 1..3 |-> evicted[i].server_type] = <<<<"b">>, <<"a">>, <<"u">>>>

\* the count the pool spec of an immediate pool is to see: the servers not
\* powered off, with the labels, initializing or ready
AvailableNow(ss, labels) ==
    Cardinality({i \in 1..Len(ss) :
        /\ ss[i].server_status # STATUS_OFF
        /\ labels \subseteq ss[i].labels
        /\ ss[i].status \in {"initializing", "ready"}})

\* the servers of a snapshot that are not powered off and have the labels
PresentNow(ss, labels) ==
    Cardinality({i \in 1..Len(ss) :
        ss[i].server_status # STATUS_OFF /\ labels \subseteq ss[i].labels})

Deficit(count, have) == IF have < count THEN count - have ELSE 0

\* the tasks submitted for the pool spec at hand
Requested == Len(futures) - pool_start.futures

\* C6: for a pool that is replenished immediately, available counts the
\* servers not powered off whose labels include the pool's and whose status is
\* initializing or ready, and the requests made for the pool and those still to
\* make add up to max(0, count - available): when the loop over the deficit
\* ends without running out of capacity, exactly that many were requested.
C6_ImmediatePool ==
    (pc = "replenish" /\ standby_runners[pool_i].replenish_immediately) =>
        LET standby_runner == standby_runners[pool_i]
            have == AvailableNow(pool_start.servers, standby_runner.labels)
        IN  /\ available = have
            /\ Requested + remaining = Deficit(standby_runner.count, have)

\* two matching servers, one of them busy, and a count of 2: one request
C6_Witness ==
    /\ pc = "replenish" /\ remaining = 0
    /\ standby_runners[pool_i].replenish_immediately
    /\ standby_runners[pool_i].count = 2
    /\ PresentNow(pool_start.servers, standby_runners[pool_i].labels) = 2
    /\ \E i \in 1..Len(pool_start.servers) : pool_start.servers[i].status = "busy"
    /\ available = 1
    /\ Requested = 1

\* C7: for a pool that is not replenished immediately, the pass takes the count
\* of the servers not powered off whose labels include the pool's, whatever
\* their status, and sets the requests to make to max(0, count - available).
C7_PresentCount ==
    (/\ lastOp.caller = "standby"
     /\ lastOp.kind \in {"pool", "TypeError"}
     /\ ~standby_runners[lastOp.pool].replenish_immediately) =>
        /\ lastOp.kind = "pool"
        /\ pc = "replenish" =>
            /\ available = PresentNow(lastOp.before, lastOp.labels)
            /\ remaining = Deficit(standby_runners[lastOp.pool].count, available)

\* the job the loop over the jobs is at
AtJob == pc = "jobs" /\ job_i <= Len(JobsOf(workflow_runs[run_i]))

\* the labels the CI provider has for the runner of the job
RegisteredLabels(j) == (CHOOSE r \in runners : r.id = jobs[j].runner_id).labels

\* the step is one of the control loop, not one of a worker of the pools
LoopMoves == <<pc, run_i, job_i, pool_i>>' # <<pc, run_i, job_i, pool_i>>

\* C8: for a job in progress on a runner outside the standby namespace whose
\* server name is not in the snapshot, the decision is taken with the labels
\* registered for the runner: the label filter, and the type, location, image
\* and labels of the server requested.
C8_RunnerLabels ==
    [][(/\ AtJob /\ LoopMoves
        /\ jobs[CurrentJob].status = "in_progress"
        /\ ~StartsWith(jobs[CurrentJob].runner_name, standby_runner_name_prefix)
        /\ JobServerName(JobList[CurrentJob].run_id, JobList[CurrentJob].id)
                \notin Names(servers)
        /\ ~abandoned') =>
            LET labels == RegisteredLabels(CurrentJob)
                passes == with_label = NoneName \/ with_label \in labels
            IN  /\ lastOp'.job = CurrentJob
                /\ lastOp'.labels = labels
                /\ lastOp'.kind \in {"run_cap", "filtered", "exhausted"} \cup Submits
                /\ lastOp'.kind = "filtered" => ~passes
                /\ lastOp'.kind \in {"exhausted"} \cup Submits => passes
                /\ lastOp'.kind \in Submits =>
                    LET task == tasks'[Len(tasks')]
                        server == servers'[Len(servers')]
                    IN  /\ task.labels = labels
                        /\ task.server_type = get_server_type(labels, default_server_type)
                        /\ task.server_location
                                = get_server_location(labels, default_location)
                        /\ task.server_image = get_server_image(labels, default_image)
                        /\ server.labels = labels
                        /\ server.server_type = task.server_type
                        /\ server.server_location = task.server_location
       ]_vars

\* a job that declares the label small alone runs on a runner that has the
\* required label and a type label: the server requested is of the runner's type
C8_Witness ==
    /\ pc = "jobs" /\ lastOp.caller = "job" /\ lastOp.kind \in Submits
    /\ jobs[lastOp.job].status = "in_progress"
    /\ ~StartsWith(jobs[lastOp.job].runner_name, standby_runner_name_prefix)
    /\ with_label # NoneName /\ with_label \notin JobList[lastOp.job].labels
    /\ lastOp.labels # JobList[lastOp.job].labels
    /\ tasks[Len(tasks)].server_type = <<"b">>

\* C9: at a job in progress on a runner of the standby namespace the decision
\* pass submits no task, evicts no server and leaves the snapshot as it is.
C9_StandbyJobLeftAlone ==
    [][(/\ AtJob /\ LoopMoves
        /\ jobs[CurrentJob].status = "in_progress"
        /\ StartsWith(jobs[CurrentJob].runner_name, standby_runner_name_prefix)) =>
            /\ tasks' = tasks /\ futures' = futures
            /\ servers' = servers /\ cloud' = cloud
            /\ lastOp'.kind \notin Submits
       ]_vars

\* the job has no server of its own and runs on a standby runner
C9_Witness ==
    /\ pc = "jobs" /\ lastOp.kind = "on_standby"
    /\ jobs[lastOp.job].status = "in_progress"
    /\ StartsWith(jobs[lastOp.job].runner_name, standby_runner_name_prefix)
    /\ lastOp.name \notin Names(servers)

TaskOver(t) == tasks[t].state \in {"done", "failed"}

BootstrapPending(t) == tasks[t].boot \in {"queued", "running"}

\* C11 as stated, for a cycle that no exception abandons: the loop sleeps only
\* when the bootstrap of every server provisioned in the cycle is over.
C11_SleepAfterBootstraps ==
    (pc = "sleep" /\ ~abandoned) =>
        \A i \in 1..Len(futures) : ~BootstrapPending(futures[i])

\* C11: in a cycle that no exception abandons, the loop sleeps only when every
\* task of the cycle has either failed, with no bootstrap, or seen its server
\* running and handed the bootstrap to the inner pool; the bootstrap itself is
\* not waited for.
C11_SleepAfterHandOver ==
    (pc = "sleep" /\ ~abandoned) =>
        \A i \in 1..Len(futures) :
            \/ tasks[futures[i]].state = "done" /\ tasks[futures[i]].boot # "none"
            \/ tasks[futures[i]].state = "failed" /\ tasks[futures[i]].boot = "none"

\* the loop sleeps while a bootstrap of the cycle is still in the queue
C11_Witness ==
    /\ pc = "sleep" /\ ~abandoned
    /\ \E i \in 1..Len(futures) :
        tasks[futures[i]].state = "done" /\ tasks[futures[i]].boot = "queued"

\* C12: a job whose provisioning had failed when the cycle began, and which is
\* still queued or in progress, not running on a standby runner, not held back
\* by the label filter or the per-run cap and not out of capacity, gets a new
\* create or recycle task in the cycle.
C12_FailedJobRetried ==
    (/\ lastOp.caller = "job"
     /\ lastOp.name \in failed
     /\ lastOp.kind \notin {"completed", "on_standby", "run_cap", "filtered", "exhausted"})
        => lastOp.kind \in Submits

\* C13: an exception never ends the loop. The step that abandons a cycle takes
\* the loop to its sleep, the sleep ends at the top of the next cycle, where a
\* pass begins unless the termination signal is set, and the loop exits from the
\* top of a cycle only, with the signal set, and for good.
C13_ExceptionKeepsLoop ==
    [][/\ (abandoned' /\ ~abandoned) => pc' = "sleep"
       /\ abandoned' => pc' \in {"sleep", "top", "terminated"}
       /\ (pc = "sleep" /\ pc' # pc) => (pc' = "top" /\ cycle' = cycle + 1)
       /\ (pc = "top" /\ pc' # pc /\ ~terminate) => pc' \in {"runs", "sleep"}
       /\ (pc' = "terminated" /\ pc # "terminated") => (pc = "top" /\ terminate)
       /\ pc = "terminated" => pc' = "terminated"
      ]_vars

\* after an abandoned cycle the loop is at the top of the next one
C13_Witness ==
    /\ pc = "top" /\ cycle = 2
    /\ abandoned /\ ~terminate

\* C14: the capacity signal abandons nothing. Raised for a job it ends the
\* loops over the runs and the jobs and the standby pass starts at the first
\* pool spec; raised for a pool spec it ends the requests for that spec and the
\* next pool spec is taken up; nothing is submitted or evicted by the refused
\* call, and the cycle goes on to the wait and the sleep.
C14_ExhaustedStopsLittle ==
    [][/\ (lastOp' # lastOp /\ lastOp'.kind = "exhausted") =>
            /\ pc \in {"jobs", "replenish"}
            /\ ~abandoned' /\ pc' = "standby"
            /\ futures' = futures /\ tasks' = tasks
            /\ servers' = servers /\ cloud' = cloud
            /\ pc = "jobs" => (lastOp'.caller = "job" /\ pool_i' = 1)
            /\ pc = "replenish" => (lastOp'.caller = "standby" /\ pool_i' = pool_i + 1)
       /\ lastOp.kind = "exhausted" =>
            (~abandoned /\ pc \in {"standby", "wait", "sleep", "top", "terminated"})
      ]_vars

\* the fleet is full when a job asks for a server: the standby pass is next,
\* with the tasks of the cycle still to wait for
C14_Witness ==
    /\ lastOp.kind = "exhausted" /\ lastOp.caller = "job"
    /\ pc = "standby" /\ pool_i = 1 /\ standby_runners # <<>>
    /\ ~abandoned
    /\ Len(futures) >= 1

\* the tasks a worker of the outer pool is executing, and the bootstraps a
\* worker of the inner pool is executing
Executing == {t \in 1..Len(tasks) : tasks[t].state = "waiting"}
Bootstrapping == {t \in 1..Len(tasks) : tasks[t].boot = "running"}

\* C15: with pools of width max_workers, at most max_workers create or recycle
\* tasks and at most max_workers bootstraps are executing; a bootstrap is
\* queued or executed only when its outer task has returned, and a task that
\* sees its server running can always hand over the bootstrap and return,
\* however busy the inner pool is.
C15_PoolWidths ==
    /\ Cardinality(Executing) <= max_workers
    /\ Cardinality(Bootstrapping) <= max_workers
    /\ Cardinality(Executing) + Cardinality(Bootstrapping) <= 2 * max_workers
    /\ \A t \in 1..Len(tasks) : tasks[t].boot # "none" => tasks[t].state = "done"
    /\ \A t \in 1..Len(tasks) :
        (LoopBlocked /\ tasks[t].state = "waiting" /\ tasks[t].name \in CloudNames)
            => ENABLED TaskReady(t)

\* every worker of the inner pool is busy and a bootstrap waits in its queue,
\* the task that submitted it having returned
C15_Witness ==
    /\ Cardinality(Bootstrapping) = max_workers
    /\ \E t \in 1..Len(tasks) : tasks[t].boot = "queued" /\ tasks[t].state = "done"

\* the status the cloud provider has for the server of the name
StatusAtProvider(cl, name) == cl[CHOOSE i \in 1..Len(cl) : cl[i].name = name].status

\* C16: a step of a worker puts a bootstrap in the queue of the inner pool only
\* for a task that was waiting for its server and returns now, the server
\* running; a task that fails while it waits for its server gets no bootstrap
\* and changes no other task; a failed task never has a bootstrap.
C16_BootstrapAfterRunning ==
    [][(LoopBlocked /\ Len(tasks') = Len(tasks)) =>
        \A t \in 1..Len(tasks) :
            /\ (tasks[t].boot = "none" /\ tasks'[t].boot # "none") =>
                    /\ tasks[t].state = "waiting" /\ tasks'[t].state = "done"
                    /\ tasks'[t].boot = "queued"
                    /\ StatusAtProvider(cloud', tasks[t].name) = STATUS_RUNNING
            /\ (tasks[t].state = "waiting" /\ tasks'[t].state = "failed") =>
                    /\ tasks'[t].boot = "none"
                    /\ \A u \in 1..Len(tasks) : u # t => tasks'[u] = tasks[u]
            /\ tasks'[t].state = "failed" => tasks'[t].boot = "none"
      ]_vars

\* a task has run out of time, its server not yet running, and another task of
\* the cycle has handed over its bootstrap
C16_Witness ==
    \E t, u \in 1..Len(tasks) :
        /\ t # u /\ tasks[t].cycle = tasks[u].cycle
        /\ tasks[t].state = "failed" /\ tasks[t].boot = "none"
        /\ tasks[t].name \in CloudNames
        /\ StatusAtProvider(cloud, tasks[t].name) = STATUS_STARTING
        /\ tasks[u].state = "done" /\ tasks[u].boot # "none"

\* C17: a failed handle ends nothing. While the loop waits it is not abandoned,
\* it passes from one handle to the next when the task of the handle is over,
\* failed or not, and it goes to its sleep only when it has waited on every
\* handle of the cycle.
C17_FailedHandleIgnored ==
    [][pc = "wait" =>
        /\ ~abandoned /\ ~abandoned'
        /\ pc' \in {"wait", "sleep"}
        /\ pc' = "sleep" => wait_i = Len(futures) + 1
        /\ wait_i' # wait_i => (wait_i' = wait_i + 1 /\ TaskOver(futures[wait_i]))
        /\ \A i \in 1..(wait_i - 1) : TaskOver(futures[i])
      ]_vars

\* the loop has passed a handle whose task failed and waits on the next one
C17_Witness ==
    /\ pc = "wait" /\ ~abandoned
    /\ wait_i = 2 /\ Len(futures) >= 2
    /\ tasks[futures[1]].state = "failed"
    /\ tasks[futures[2]].state \in {"submitted", "waiting"}

\* C18: with the termination signal set the loop at the top of a cycle starts
\* no pass and exits, for good; the tasks submitted before go on as they would
\* have: none is dropped, and a task that sees its server running returns with
\* its bootstrap handed to the inner pool.
C18_TerminationLeavesTasks ==
    [][/\ (terminate /\ pc = "top" /\ pc' # pc) => pc' = "terminated"
       /\ pc = "terminated" =>
            /\ pc' = "terminated"
            /\ Len(tasks') = Len(tasks)
            /\ \A t \in 1..Len(tasks) :
                (/\ tasks[t].state = "waiting" /\ tasks'[t].state # "waiting"
                 /\ StatusAtProvider(cloud', tasks[t].name) = STATUS_RUNNING)
                    => (tasks'[t].state = "done" /\ tasks'[t].boot = "queued")
      ]_vars

\* the server type and the location resolved for the labels of a requirement
ResolvedType(labels) == get_server_type(labels, default_server_type)
ResolvedLocation(labels) == get_server_location(labels, default_location)
KeyLabel(server) == ssh_key_label_of(server.server.labels)

\* C19 as stated: a recycle task is submitted only for a recyclable server
\* whose type, location and ssh key label equal the type, the location and the
\* key resolved for the requirement.
C19_RecycleExactMatch ==
    lastOp.kind = "recycle" =>
        LET server == Named(lastOp.before, lastOp.victim)
        IN  /\ recycle /\ is_recyclable(server)
            /\ server.server_type = ResolvedType(lastOp.labels)
            /\ server.server_location = ResolvedLocation(lastOp.labels)
            /\ KeyLabel(server) = ssh_key

\* the servers of a snapshot the requirement can be met with by recycling: the
\* type and the key label equal, the location equal or none resolved
Matching(ss, labels) ==
    {s \in Recyclables(ss) :
        /\ s.server_type = ResolvedType(labels)
        /\ (ResolvedLocation(labels) = NoneLocation
                \/ s.server_location = ResolvedLocation(labels))
        /\ KeyLabel(s) = ssh_key}

\* C19: a recycle task is submitted only with recycling enabled and for a
\* recyclable server whose type and ssh key label equal those resolved for the
\* requirement and whose location equals the resolved one when one is
\* resolved; a requirement with no location resolved takes a server of any
\* location. With recycling enabled a requirement is left to creation,
\* eviction or refusal only when no recyclable server of the snapshot matches.
C19_RecycleMatch ==
    /\ lastOp.kind = "recycle" =>
        (recycle /\ Named(lastOp.before, lastOp.victim) \in Matching(lastOp.before, lastOp.labels))
    /\ (recycle /\ lastOp.kind \in {"create", "evict_create", "exhausted"}) =>
        Matching(lastOp.before, lastOp.labels) = {}

\* no location is resolved for the requirement and a server in fsn is recycled
C19_Witness ==
    /\ lastOp.kind = "recycle"
    /\ ResolvedLocation(lastOp.labels) = NoneLocation
    /\ Named(lastOp.before, lastOp.victim).server_location = "fsn"

\* the recycle tasks submitted in the current cycle
RecycleTasks == {t \in 1..Len(tasks) : tasks[t].kind = "recycle" /\ tasks[t].cycle = cycle}

\* C20: a recycle decision takes the recycled server's entry out of the snapshot
\* and appends a placeholder under the new name, the other entries and the size
\* of the snapshot unchanged; within one cycle no two recycle tasks have the
\* same target, no target of a recycle task is evicted, and no target is still
\* in the snapshot.
C20_RecyclePlaceholder ==
    /\ lastOp.kind = "recycle" =>
        /\ Len(servers) = Len(lastOp.before)
        /\ SubSeq(servers, 1, Len(servers) - 1)
             = SelectSeq(lastOp.before, LAMBDA s : s.name # lastOp.victim)
        /\ servers[Len(servers)].name = lastOp.name
        /\ servers[Len(servers)].server = NoServer
    /\ \A t, u \in RecycleTasks : tasks[t].server_name = tasks[u].server_name => t = u
    /\ pc \in {"jobs", "standby", "replenish", "wait"} =>
        \A t \in RecycleTasks :
            /\ \A i \in 1..Len(evicted) : evicted[i].name # tasks[t].server_name
            /\ \A i \in 1..Len(servers) : servers[i].name # tasks[t].server_name

\* after a recycle decision of the cycle another requirement that the recycled
\* server matched has been decided
C20_Witness ==
    /\ lastOp.kind \in Submits
    /\ \E t \in RecycleTasks :
        /\ tasks[t].name # lastOp.name
        /\ Named(collected, tasks[t].server_name) \in Matching(collected, lastOp.labels)

\* C21: wait_ssh always ends, whatever the ssh commands return: it comes to
\* return or to raise.
C21_WaitSshEnds == <>(ssh_pc \in {"returned", "raised"})

\* the servers at the provider that a step deletes, and those it renames to
\* rebuild them
Deleted == {i \in 1..Len(cloud) : \A k \in 1..Len(cloud') : cloud'[k].id # cloud[i].id}
Rebuilt == {i \in 1..Len(cloud) :
                \E k \in 1..Len(cloud') : /\ cloud'[k].id = cloud[i].id
                                          /\ cloud'[k].name # cloud[i].name}

\* C22: a server the service deletes or rebuilds has, when it is deleted or
\* rebuilt, a name in the recyclable namespace, and recycling is enabled: no
\* job-scoped server and no standby server is deleted or rebuilt.
C22_OnlyRecyclablesTouched ==
    [][pc # "top" =>
         \A i \in Deleted \cup Rebuilt :
             recycle /\ StartsWith(cloud[i].name, recycle_server_name_prefix)
      ]_vars

\* C23: a run is skipped at the head of the loop over the runs, or cut short
\* before one of its jobs, only when the snapshot holds at least the cap of
\* servers named for jobs of that same run.
C23_CapCountsOwnRun ==
    [][(/\ max_servers_in_workflow_run # NoneInt
        /\ run_i \in 1..Len(workflow_runs)
        /\ run_i' = run_i + 1 /\ pc' = "runs"
        /\ \/ pc = "runs"
           \/ pc = "jobs" /\ job_i <= Len(JobsOf(workflow_runs[run_i])))
            => RunScoped(servers, workflow_runs[run_i]) >= max_servers_in_workflow_run
      ]_vars

\* C24: when the loop over the deficit of a pool spec has made every request
\* without running out of capacity, the snapshot holds at least the spec's
\* count of servers that count as available for the spec.
C24_PoolFilled ==
    (pc = "replenish" /\ remaining = 0) =>
        AvailableNow(servers, standby_runners[pool_i].labels)
            >= standby_runners[pool_i].count

\* the create and recycle tasks the outer pool has not finished
InFlight == {t \in 1..Len(tasks) : tasks[t].state \in {"submitted", "waiting"}}

\* C25: no two create or recycle tasks that are in flight together have the
\* same target server name.
C25_OneTaskPerName ==
    \A t, u \in InFlight : tasks[t].name = tasks[u].name => t = u

\* C26: the inner pool is not shut down while a create or recycle task is in
\* flight: every task in flight can still hand its bootstrap to the inner pool.
C26_InnerPoolOpenForTasks == InFlight # {} => setup_worker_pool_open

====
